---- MODULE Spec2Model ----
(***************************************************************************)
(* SIP003 plugin-argument discovery of shadow-tls (src/sip003.rs).         *)
(*                                                                         *)
(* Text is modelled as a sequence of one-character strings, one element    *)
(* per byte.  Cursors (i, consumed lengths) are 0-based as in the source;  *)
(* byte i of the source is element i + 1 of the sequence.                  *)
(***************************************************************************)
EXTENDS Integers, Sequences, FiniteSets, TLC

VARIABLES
    env,                \* the process environment: name -> [set, val]
    caller,             \* who runs parse_sip003_options: "get_sip003_arg" or "test"
    pc,                 \* position in the code
    ss_remote_host, ss_remote_port, ss_local_host, ss_local_port,
    s,                  \* parse_sip003_options: the argument (ss_plugin_options)
    i,                  \* parse_sip003_options: the cursor
    opts,               \* parse_sip003_options: the Vec of pairs
    key,                \* parse_sip003_options: the key of the current iteration
    ret,                \* what parse_sip003_options returned
    opts_map,           \* get_sip003_arg: the HashMap collected from the pairs
    result              \* what get_sip003_arg did: None, Some(args), exit, panic

vars == <<env, caller, pc, ss_remote_host, ss_remote_port, ss_local_host,
          ss_local_port, s, i, opts, key, ret, opts_map, result>>

----------------------------------------------------------------------------
(* Bounds of the model *)

\* longest option string of the tokenizer's specification
MaxLen == 5
\* most pairs of an option string of the extractor's specification
MaxPairs == 3

----------------------------------------------------------------------------
(* Text constants of the source *)

K_threads == <<"t", "h", "r", "e", "a", "d", "s">>
K_v3 == <<"v", "3">>
K_passwd == <<"p", "a", "s", "s", "w", "d">>
K_server == <<"s", "e", "r", "v", "e", "r">>
K_tls == <<"t", "l", "s">>
K_host == <<"h", "o", "s", "t">>
FlagValue == <<"1">>
Term == {"=", ";"}

AddrKeys == {"SS_REMOTE_HOST", "SS_REMOTE_PORT", "SS_LOCAL_HOST", "SS_LOCAL_PORT"}
EnvKeys == AddrKeys \cup {"SS_PLUGIN_OPTIONS"}

\* a variable of the environment: unset, or set to a text
Absent == [set |-> FALSE, val |-> <<>>]
Present(v) == [set |-> TRUE, val |-> v]

\* the input of the unit test, "server;secret=\\=nou;cache=/tmp/cache;secret=yes"
TestInput ==
    <<"s", "e", "r", "v", "e", "r", ";",
      "s", "e", "c", "r", "e", "t", "=", "\\", "=", "n", "o", "u", ";",
      "c", "a", "c", "h", "e", "=", "/", "t", "m", "p", "/", "c", "a", "c", "h", "e", ";",
      "s", "e", "c", "r", "e", "t", "=", "y", "e", "s">>

\* the vector the unit test expects
TestExpected ==
    << <<K_server, <<"1">> >>,
       << <<"s", "e", "c", "r", "e", "t">>, <<"=", "n", "o", "u">> >>,
       << <<"c", "a", "c", "h", "e">>, <<"/", "t", "m", "p", "/", "c", "a", "c", "h", "e">> >>,
       << <<"s", "e", "c", "r", "e", "t">>, <<"y", "e", "s">> >> >>

----------------------------------------------------------------------------
(* index_unescaped *)

Slice(str, from) == SubSeq(str, from + 1, Len(str))

ScanOk(n, text) == [ok |-> TRUE, n |-> n, text |-> text]
ScanErr == [ok |-> FALSE, n |-> 0, text |-> <<>>]

RECURSIVE index_unescaped_loop(_, _, _, _)
index_unescaped_loop(str, term, j, unesc) ==
    IF j >= Len(str) THEN ScanOk(j, unesc)
    ELSE IF str[j + 1] \in term THEN ScanOk(j, unesc)
    ELSE IF str[j + 1] = "\\"
         THEN IF j + 1 >= Len(str) THEN ScanErr
              ELSE index_unescaped_loop(str, term, j + 2, Append(unesc, str[j + 2]))
         ELSE index_unescaped_loop(str, term, j + 1, Append(unesc, str[j + 1]))

\* faulty variant: the escaping backslash is copied too
RECURSIVE index_unescaped_loop_KeepsBackslash(_, _, _, _)
index_unescaped_loop_KeepsBackslash(str, term, j, unesc) ==
    IF j >= Len(str) THEN ScanOk(j, unesc)
    ELSE IF str[j + 1] \in term THEN ScanOk(j, unesc)
    ELSE IF str[j + 1] = "\\"
         THEN IF j + 1 >= Len(str) THEN ScanErr
              ELSE index_unescaped_loop_KeepsBackslash(
                       str, term, j + 2, unesc \o <<"\\", str[j + 2]>>)
         ELSE index_unescaped_loop_KeepsBackslash(str, term, j + 1, Append(unesc, str[j + 1]))

index_unescaped_KeepsBackslash(str, term) ==
    index_unescaped_loop_KeepsBackslash(str, term, 0, <<>>)

\* faulty variant: a final backslash is copied instead of rejected
RECURSIVE index_unescaped_loop_NoDangling(_, _, _, _)
index_unescaped_loop_NoDangling(str, term, j, unesc) ==
    IF j >= Len(str) THEN ScanOk(j, unesc)
    ELSE IF str[j + 1] \in term THEN ScanOk(j, unesc)
    ELSE IF str[j + 1] = "\\" /\ j + 1 < Len(str)
         THEN index_unescaped_loop_NoDangling(str, term, j + 2, Append(unesc, str[j + 2]))
         ELSE index_unescaped_loop_NoDangling(str, term, j + 1, Append(unesc, str[j + 1]))

index_unescaped_NoDangling(str, term) == index_unescaped_loop_NoDangling(str, term, 0, <<>>)

index_unescaped(str, term) == index_unescaped_loop(str, term, 0, <<>>)

----------------------------------------------------------------------------
(* parse_sip003_options *)

NoRet == [kind |-> "None", err |-> "", ctx |-> "", pairs |-> <<>>]
Ok(pairs) == [kind |-> "Ok", err |-> "", ctx |-> "", pairs |-> pairs]
Err(e, ctx) == [kind |-> "Err", err |-> e, ctx |-> ctx, pairs |-> <<>>]

\* faulty variant: the empty-key check is missing
KeyIsEmpty_Never(k) == FALSE

KeyIsEmpty(k) == k = <<>>
NoEquals(str, j) == j >= Len(str) \/ str[j + 1] # "="
SkipFlag(j) == j + 1
SkipEquals(j) == j + 1
\* faulty variant: the cursor is not advanced after a value
SkipSemicolon_Stay(j) == j

SkipSemicolon(j) == j + 1

Returned == IF caller = "get_sip003_arg" THEN "unwrap" ELSE "done"

ParseUnchanged ==
    UNCHANGED <<env, caller, ss_remote_host, ss_remote_port, ss_local_host,
                ss_local_port, s, opts_map, result>>

\* one pass of the loop from its head to the flag's `continue` or past the `=`
ReadKey ==
    /\ pc = "key"
    /\ i < Len(s)
    /\ LET r == index_unescaped(Slice(s, i), Term) IN
       IF ~r.ok
       THEN /\ ret' = Err("DanglingEscape", "read key")
            /\ pc' = Returned
            /\ UNCHANGED <<i, opts, key>>
       ELSE IF KeyIsEmpty(r.text)
       THEN /\ ret' = Err("EmptyKey", "")
            /\ pc' = Returned
            /\ UNCHANGED <<i, opts, key>>
       ELSE IF NoEquals(s, i + r.n)
       THEN /\ opts' = Append(opts, <<r.text, FlagValue>>)
            /\ i' = SkipFlag(i + r.n)
            /\ pc' = "key"
            /\ UNCHANGED <<key, ret>>
       ELSE /\ key' = r.text
            /\ i' = SkipEquals(i + r.n)
            /\ pc' = "value"
            /\ UNCHANGED <<opts, ret>>
    /\ ParseUnchanged

\* the rest of the pass: the value and the byte after it
ReadValue ==
    /\ pc = "value"
    /\ LET r == index_unescaped(Slice(s, i), Term) IN
       IF ~r.ok
       THEN /\ ret' = Err("DanglingEscape", "read value")
            /\ pc' = Returned
            /\ UNCHANGED <<i, opts, key>>
       ELSE /\ opts' = Append(opts, <<key, r.text>>)
            /\ i' = SkipSemicolon(i + r.n)
            /\ pc' = "key"
            /\ UNCHANGED <<key, ret>>
    /\ ParseUnchanged

\* the loop's exit
ParseReturn ==
    /\ pc = "key"
    /\ ~(i < Len(s))
    /\ ret' = Ok(opts)
    /\ pc' = Returned
    /\ UNCHANGED <<i, opts, key>>
    /\ ParseUnchanged

----------------------------------------------------------------------------
(* get_sip003_arg *)

\* the arms of macro env!: "none" is `return None`, "fail" runs $fail_fn
\* faulty variant: an empty value is taken as a value
EnvArm_EmptyPasses(v) == IF ~v.set THEN "none" ELSE "val"

EnvArm(v) ==
    IF ~v.set THEN "none"
    ELSE IF v.val = <<>> THEN "none"
    ELSE "val"

EnvArmFail(v) ==
    IF ~v.set THEN "none"
    ELSE IF v.val = <<>> THEN "fail"
    ELSE "val"

NoThreads == [some |-> FALSE, val |-> 0]
NoFields ==
    [variant |-> "", listen |-> <<>>, server_addr |-> <<>>, names |-> <<>>,
     password |-> <<>>, alpn |-> <<>>, threads |-> NoThreads, v3 |-> FALSE]

Running == [kind |-> "Running", msg |-> "", args |-> NoFields]
ReturnNone == [kind |-> "None", msg |-> "", args |-> NoFields]
Exit(m) == [kind |-> "Exit", msg |-> m, args |-> NoFields]
Panic(m) == [kind |-> "Panic", msg |-> m, args |-> NoFields]
Some(a) == [kind |-> "Some", msg |-> "", args |-> a]

ArgUnchanged == UNCHANGED <<env, caller, s, i, opts, key, ret, opts_map>>

GetRemoteHost ==
    /\ pc = "remote_host"
    /\ IF EnvArm(env["SS_REMOTE_HOST"]) = "none"
       THEN /\ result' = ReturnNone
            /\ pc' = "done"
            /\ UNCHANGED ss_remote_host
       ELSE /\ ss_remote_host' = env["SS_REMOTE_HOST"].val
            /\ pc' = "remote_port"
            /\ UNCHANGED result
    /\ UNCHANGED <<ss_remote_port, ss_local_host, ss_local_port>>
    /\ ArgUnchanged

GetRemotePort ==
    /\ pc = "remote_port"
    /\ IF EnvArm(env["SS_REMOTE_PORT"]) = "none"
       THEN /\ result' = ReturnNone
            /\ pc' = "done"
            /\ UNCHANGED ss_remote_port
       ELSE /\ ss_remote_port' = env["SS_REMOTE_PORT"].val
            /\ pc' = "local_host"
            /\ UNCHANGED result
    /\ UNCHANGED <<ss_remote_host, ss_local_host, ss_local_port>>
    /\ ArgUnchanged

GetLocalHost ==
    /\ pc = "local_host"
    /\ IF EnvArm(env["SS_LOCAL_HOST"]) = "none"
       THEN /\ result' = ReturnNone
            /\ pc' = "done"
            /\ UNCHANGED ss_local_host
       ELSE /\ ss_local_host' = env["SS_LOCAL_HOST"].val
            /\ pc' = "local_port"
            /\ UNCHANGED result
    /\ UNCHANGED <<ss_remote_host, ss_remote_port, ss_local_port>>
    /\ ArgUnchanged

GetLocalPort ==
    /\ pc = "local_port"
    /\ IF EnvArm(env["SS_LOCAL_PORT"]) = "none"
       THEN /\ result' = ReturnNone
            /\ pc' = "done"
            /\ UNCHANGED ss_local_port
       ELSE /\ ss_local_port' = env["SS_LOCAL_PORT"].val
            /\ pc' = "plugin_options"
            /\ UNCHANGED result
    /\ UNCHANGED <<ss_remote_host, ss_remote_port, ss_local_host>>
    /\ ArgUnchanged

\* SS_PLUGIN_OPTIONS, and the entry into parse_sip003_options with it
GetPluginOptions ==
    /\ pc = "plugin_options"
    /\ LET arm == EnvArmFail(env["SS_PLUGIN_OPTIONS"]) IN
       IF arm = "none"
       THEN /\ result' = ReturnNone
            /\ pc' = "done"
            /\ UNCHANGED <<s, i, opts>>
       ELSE IF arm = "fail"
       THEN /\ result' = Exit("need SS_PLUGIN_OPTIONS when as SIP003 plugin")
            /\ pc' = "done"
            /\ UNCHANGED <<s, i, opts>>
       ELSE /\ s' = env["SS_PLUGIN_OPTIONS"].val
            /\ i' = 0
            /\ opts' = <<>>
            /\ pc' = "key"
            /\ UNCHANGED result
    /\ UNCHANGED <<env, caller, key, ret, opts_map>>
    /\ UNCHANGED <<ss_remote_host, ss_remote_port, ss_local_host, ss_local_port>>

\* faulty variant: the first value of a key is kept
Insert_KeepsFirst(m, pair) ==
    IF \E n \in 1..Len(m) : m[n][1] = pair[1] THEN m ELSE Append(m, pair)

\* HashMap::from_iter: inserts in order, an insert replaces the value of its key
Insert(m, pair) ==
    IF \E n \in 1..Len(m) : m[n][1] = pair[1]
    THEN [n \in 1..Len(m) |-> IF m[n][1] = pair[1] THEN pair ELSE m[n]]
    ELSE Append(m, pair)

RECURSIVE collect_from(_, _, _)
collect_from(m, pairs, n) ==
    IF n > Len(pairs) THEN m
    ELSE collect_from(Insert(m, pairs[n]), pairs, n + 1)

collect(pairs) == collect_from(<<>>, pairs, 1)

Has(m, k) == \E n \in 1..Len(m) : m[n][1] = k
Get(m, k) == m[CHOOSE n \in 1..Len(m) : m[n][1] = k][2]

\* `.unwrap()` of the tokenizer's result and the collection into the map
UnwrapCollect ==
    /\ pc = "unwrap"
    /\ IF ret.kind = "Err"
       THEN /\ result' = Panic(ret.err)
            /\ pc' = "done"
            /\ UNCHANGED opts_map
       ELSE /\ opts_map' = collect(ret.pairs)
            /\ pc' = "build"
            /\ UNCHANGED result
    /\ UNCHANGED <<env, caller, s, i, opts, key, ret>>
    /\ UNCHANGED <<ss_remote_host, ss_remote_port, ss_local_host, ss_local_port>>

\* str::parse::<u8>
Digit(c) ==
    CASE c = "0" -> 0 [] c = "1" -> 1 [] c = "2" -> 2 [] c = "3" -> 3 [] c = "4" -> 4
      [] c = "5" -> 5 [] c = "6" -> 6 [] c = "7" -> 7 [] c = "8" -> 8 [] c = "9" -> 9
      [] OTHER -> -1

RECURSIVE DecimalFrom(_, _, _)
DecimalFrom(t, n, acc) ==
    IF n > Len(t) THEN acc
    ELSE IF Digit(t[n]) < 0 \/ acc * 10 + Digit(t[n]) > 255 THEN -1
    ELSE DecimalFrom(t, n + 1, acc * 10 + Digit(t[n]))

parse_u8(t) ==
    LET digits == IF t # <<>> /\ t[1] = "+" THEN Tail(t) ELSE t IN
    IF digits = <<>> THEN -1 ELSE DecimalFrom(digits, 1, 0)

\* format!("{host}:{port}")
Format(host, port) == host \o <<":">> \o port

\* faulty variant: the remote host with the local port
ServerListen_Mixed == Format(ss_remote_host, ss_local_port)

ServerListen == Format(ss_remote_host, ss_remote_port)
ServerServerAddr == Format(ss_local_host, ss_local_port)
ClientListen == Format(ss_local_host, ss_local_port)
ClientServerAddr == Format(ss_remote_host, ss_remote_port)

IsServer(m) == Has(m, K_server)

ServerArgs(m, args_opts, ext_ok) ==
    IF ~Has(m, K_tls)
    THEN Panic("tls param must be specified(like tls=xxx.com:443)")
    ELSE IF ~ext_ok
    THEN Panic("tls param parse failed")
    ELSE Some([args_opts EXCEPT !.variant = "Server",
                                !.listen = ServerListen,
                                !.server_addr = ServerServerAddr,
                                !.names = Get(m, K_tls),
                                !.password = Get(m, K_passwd)])

\* faulty variant: a missing `host` is not checked
ClientArgs_NoHostCheck(m, args_opts, ext_ok) ==
    IF ~ext_ok
    THEN Panic("tls names parse failed")
    ELSE Some([args_opts EXCEPT !.variant = "Client",
                                !.listen = ClientListen,
                                !.server_addr = ClientServerAddr,
                                !.names = IF Has(m, K_host) THEN Get(m, K_host) ELSE <<>>,
                                !.password = Get(m, K_passwd),
                                !.alpn = <<>>])

ClientArgs(m, args_opts, ext_ok) ==
    IF ~Has(m, K_host)
    THEN Panic("need host param(like host=www.baidu.com)")
    ELSE IF ~ext_ok
    THEN Panic("tls names parse failed")
    ELSE Some([args_opts EXCEPT !.variant = "Client",
                                !.listen = ClientListen,
                                !.server_addr = ClientServerAddr,
                                !.names = Get(m, K_host),
                                !.password = Get(m, K_passwd),
                                !.alpn = <<>>])

\* ext_ok: whether crate::server::parse_server_addrs / crate::client::parse_client_names
\* accepts the value it is given
BuildArgs(m, ext_ok) ==
    IF Has(m, K_threads) /\ parse_u8(Get(m, K_threads)) < 0
    THEN Panic("threads")
    ELSE IF ~Has(m, K_passwd)
    THEN Panic("need passwd param(like passwd=123456)")
    ELSE LET threads == IF Has(m, K_threads)
                        THEN [some |-> TRUE, val |-> parse_u8(Get(m, K_threads))]
                        ELSE NoThreads
             args_opts == [NoFields EXCEPT !.threads = threads, !.v3 = Has(m, K_v3)]
         IN  IF IsServer(m) THEN ServerArgs(m, args_opts, ext_ok)
             ELSE ClientArgs(m, args_opts, ext_ok)

Build ==
    /\ pc = "build"
    /\ \E ext_ok \in BOOLEAN : result' = BuildArgs(opts_map, ext_ok)
    /\ pc' = "done"
    /\ UNCHANGED <<env, caller, s, i, opts, key, ret, opts_map>>
    /\ UNCHANGED <<ss_remote_host, ss_remote_port, ss_local_host, ss_local_port>>

----------------------------------------------------------------------------
(* The extractor: every environment over a few values of each variable *)

EnvText(k) ==
    CASE k = "SS_REMOTE_HOST" -> <<"r">>
      [] k = "SS_REMOTE_PORT" -> <<"1">>
      [] k = "SS_LOCAL_HOST" -> <<"l">>
      [] k = "SS_LOCAL_PORT" -> <<"2">>

EnvValue(k, c) ==
    CASE c = "absent" -> Absent
      [] c = "empty" -> Present(<<>>)
      [] c = "set" -> Present(EnvText(k))

PairTexts ==
    { K_passwd \o <<"=", "x">>,
      K_passwd \o <<"=">>,
      K_server,
      K_server \o <<"=", "0">>,
      K_tls \o <<"=", "y">>,
      K_host \o <<"=", "z">>,
      K_threads \o <<"=", "1", "2">>,
      K_threads \o <<"=", "9", "9", "9">>,
      K_v3 }

RECURSIVE Join(_, _)
Join(ps, n) ==
    IF n = 1 THEN ps[1] ELSE Join(ps, n - 1) \o <<";">> \o ps[n]

OptionStrings ==
    {Join(ps, Len(ps)) : ps \in UNION {[1..n -> PairTexts] : n \in 1..MaxPairs}}

\* option strings the tokenizer rejects
MalformedOptions ==
    { <<";">> \o K_passwd \o <<"=", "x", ";">> \o K_host \o <<"=", "z">>,
      K_passwd \o <<"=", "x", ";">> \o K_host \o <<"=", "z", "\\">> }

OptionValues ==
    {Absent, Present(<<>>), Present(TestInput)}
    \cup {Present(o) : o \in OptionStrings \cup MalformedOptions}

AddrChoices == [AddrKeys -> {"absent", "empty", "set"}]

Environment(c, o) ==
    [k \in EnvKeys |-> IF k = "SS_PLUGIN_OPTIONS" THEN o ELSE EnvValue(k, c[k])]

\* every state of the four addressing variables with SS_PLUGIN_OPTIONS unset, empty
\* or set, and every option string with the four addressing variables set
Environments ==
    {Environment(c, o) : c \in AddrChoices, o \in {Absent, Present(<<>>), Present(TestInput)}}
    \cup {Environment([k \in AddrKeys |-> "set"], o) : o \in OptionValues}

Init ==
    /\ env \in Environments
    /\ caller = "get_sip003_arg"
    /\ pc = "remote_host"
    /\ ss_remote_host = <<>>
    /\ ss_remote_port = <<>>
    /\ ss_local_host = <<>>
    /\ ss_local_port = <<>>
    /\ s = <<>>
    /\ i = 0
    /\ opts = <<>>
    /\ key = <<>>
    /\ ret = NoRet
    /\ opts_map = <<>>
    /\ result = Running

Next ==
    \/ GetRemoteHost
    \/ GetRemotePort
    \/ GetLocalHost
    \/ GetLocalPort
    \/ GetPluginOptions
    \/ ReadKey
    \/ ReadValue
    \/ ParseReturn
    \/ UnwrapCollect
    \/ Build

Spec == Init /\ [][Next]_vars


----------------------------------------------------------------------------
(* The tokenizer alone, called as the unit test calls it *)

Alphabet == {"a", "b", "=", ";", "\\"}

RECURSIVE StringsUpTo(_)
StringsUpTo(n) ==
    IF n = 0 THEN {<<>>}
    ELSE LET shorter == StringsUpTo(n - 1) IN
         shorter \cup {Append(t, c) : t \in {u \in shorter : Len(u) = n - 1}, c \in Alphabet}

ParseInputs == StringsUpTo(MaxLen) \cup {TestInput}

InitParse ==
    /\ env = [k \in EnvKeys |-> Absent]
    /\ caller = "test"
    /\ pc = "key"
    /\ ss_remote_host = <<>>
    /\ ss_remote_port = <<>>
    /\ ss_local_host = <<>>
    /\ ss_local_port = <<>>
    /\ s \in ParseInputs
    /\ i = 0
    /\ opts = <<>>
    /\ key = <<>>
    /\ ret = NoRet
    /\ opts_map = <<>>
    /\ result = Running

NextParse == ReadKey \/ ReadValue \/ ParseReturn

SpecParse == InitParse /\ [][NextParse]_vars

SpecParseFair == SpecParse /\ WF_vars(NextParse)

----------------------------------------------------------------------------
(* The option-string grammar  pair (';' pair)*,  pair := key ('=' value)?   *)
(* read off the text: byte k is escaped when an unescaped backslash         *)
(* precedes it.                                                             *)

RECURSIVE Escaped(_, _)
Escaped(str, k) == k > 1 /\ str[k - 1] = "\\" /\ ~Escaped(str, k - 1)

EscapeAt(str, k) == str[k] = "\\" /\ ~Escaped(str, k)
PlainAt(str, k, c) == str[k] = c /\ ~Escaped(str, k)

RECURSIVE Unescape(_, _, _)
Unescape(str, lo, hi) ==
    IF lo > hi THEN <<>>
    ELSE (IF EscapeAt(str, lo) THEN <<>> ELSE <<str[lo]>>) \o Unescape(str, lo + 1, hi)

Semicolons(str) == {k \in 1..Len(str) : PlainAt(str, k, ";")}
PairStarts(str) == {1} \cup {k + 1 : k \in Semicolons(str)}
PairEnd(str, lo) ==
    LET later == {k \in Semicolons(str) : k >= lo} IN
    IF later = {} THEN Len(str)
    ELSE (CHOOSE k \in later : \A m \in later : k <= m) - 1
EqualsIn(str, lo) == {k \in lo..PairEnd(str, lo) : PlainAt(str, k, "=")}
NthStart(str, n) ==
    CHOOSE lo \in PairStarts(str) : Cardinality({m \in PairStarts(str) : m < lo}) = n - 1

Conforms(str) ==
    /\ str # <<>>
    /\ ~EscapeAt(str, Len(str))
    /\ \A lo \in PairStarts(str) :
          /\ Cardinality(EqualsIn(str, lo)) <= 1
          /\ lo <= PairEnd(str, lo)
          /\ ~PlainAt(str, lo, "=")

GrammarPair(str, lo) ==
    IF EqualsIn(str, lo) = {}
    THEN <<Unescape(str, lo, PairEnd(str, lo)), <<"1">> >>
    ELSE LET e == CHOOSE k \in EqualsIn(str, lo) : TRUE IN
         <<Unescape(str, lo, e - 1), Unescape(str, e + 1, PairEnd(str, lo))>>

GrammarPairs(str) ==
    [n \in 1..Cardinality(PairStarts(str)) |-> GrammarPair(str, NthStart(str, n))]

RECURSIVE TrailingBackslashes(_)
TrailingBackslashes(str) ==
    IF str = <<>> \/ str[Len(str)] # "\\" THEN 0
    ELSE 1 + TrailingBackslashes(SubSeq(str, 1, Len(str) - 1))

\* no unescaped `;` or `=` at the start or right after another one
NoEmptyText(str) ==
    /\ str # <<>>
    /\ str[1] \notin {";", "="}
    /\ \A k \in 1..(Len(str) - 1) :
          (PlainAt(str, k, ";") \/ PlainAt(str, k, "=")) => str[k + 1] \notin {";", "="}

PairKeys(pairs) == {pairs[n][1] : n \in 1..Len(pairs)}
LastIndexOf(pairs, k) ==
    CHOOSE n \in 1..Len(pairs) :
        pairs[n][1] = k /\ \A m \in 1..Len(pairs) : pairs[m][1] = k => m <= n

Tokenized == caller = "test" /\ pc = "done"

----------------------------------------------------------------------------
(* Claims *)

\* C5: every string of the grammar parses to one pair per `pair` of the string, in
\* order, duplicates kept, each key and value unescaped, a bare key with value "1";
\* the unit test's input yields the unit test's vector.
C5_GrammarStringsParse ==
    Tokenized =>
        /\ Conforms(s) => ret = Ok(GrammarPairs(s))
        /\ s = TestInput => ret = Ok(TestExpected)
        /\ (s # <<>> /\ \A k \in 1..Len(s) : s[k] \notin {"=", ";", "\\"})
              => ret = Ok(<< <<s, <<"1">> >> >>)

C5_Witness ==
    /\ Tokenized
    /\ s = TestInput
    /\ ret = Ok(TestExpected)

\* C6: a key scan that starts at an unescaped `;` or `=` makes the tokenizer return
\* the EmptyKey error, which carries no pair; a string that starts with `;` or `=`
\* fails so; every pair of a successful result has a non-empty key.
C6_EmptyKeyFails ==
    /\ [][(pc = "key" /\ i < Len(s) /\ s[i + 1] \in {";", "="})
            => (ret' = Err("EmptyKey", "") /\ ret'.pairs = <<>> /\ pc' = Returned)]_vars
    /\ []((pc = "done" /\ s # <<>> /\ s[1] \in {";", "="}) => ret = Err("EmptyKey", ""))
    /\ [](ret.kind = "Ok" => \A n \in 1..Len(ret.pairs) : ret.pairs[n][1] # <<>>)

\* pairs were scanned before the empty key
C6_Witness ==
    /\ Tokenized
    /\ ret = Err("EmptyKey", "")
    /\ Len(opts) > 0

\* C7 as stated: a string that ends in a single unescaped backslash fails with
\* DanglingEscape.
C7_SingleBackslashIsDangling ==
    (Tokenized /\ TrailingBackslashes(s) % 2 = 1) => ret.err = "DanglingEscape"

\* C7 amended: a string that ends in a single unescaped backslash fails, with
\* DanglingEscape (in a key or in a value) unless a key scan before it started at an
\* unescaped `;` or `=`, which fails with EmptyKey first (so always with
\* DanglingEscape when no unescaped `;` or `=` starts the string or follows another);
\* a final backslash that is
\* itself escaped never gives DanglingEscape and, when the string parses, ends the
\* last pair's text as literal backslashes, one per escaped pair.
C7_SingleBackslashFails ==
    Tokenized =>
        /\ TrailingBackslashes(s) % 2 = 1 =>
              /\ ret.kind = "Err"
              /\ \/ ret.err = "DanglingEscape"
                 \/ ret.err = "EmptyKey" /\ i < Len(s) /\ s[i + 1] \in {";", "="}
        /\ (TrailingBackslashes(s) % 2 = 1 /\ NoEmptyText(s)) => ret.err = "DanglingEscape"
        /\ (TrailingBackslashes(s) > 0 /\ TrailingBackslashes(s) % 2 = 0) =>
              /\ ret.err # "DanglingEscape"
              /\ ret.kind = "Ok" =>
                    LET last == ret.pairs[Len(ret.pairs)] IN
                    \/ TrailingBackslashes(last[2]) * 2 = TrailingBackslashes(s)
                    \/ /\ last[2] = <<"1">>
                       /\ TrailingBackslashes(last[1]) * 2 = TrailingBackslashes(s)

\* the dangling backslash is in a value
C7_Witness ==
    /\ Tokenized
    /\ TrailingBackslashes(s) = 1
    /\ ret = Err("DanglingEscape", "read value")

\* C9 as stated: the byte skipped before a key scan is a `;`.
C9_OnlySemicolonSkipped ==
    (pc = "key" /\ i > 0 /\ i <= Len(s)) => s[i] = ";"

\* C10: each pass of the loop moves the cursor forward; a value scan starts at most
\* at the end of the input and a key scan strictly inside it; the cursor never
\* exceeds the input length by more than one; every run returns pairs or an error.
C10_TokenizerTerminates ==
    /\ [][(pc \in {"key", "value"} /\ pc' \in {"key", "value"}) => i' > i]_vars
    /\ [](pc = "value" => i <= Len(s))
    /\ [](pc = "key" => i <= Len(s) + 1)
    /\ [][(pc = "key" /\ pc' # "key") => (i < Len(s) \/ ret' = Ok(opts))]_vars
    /\ <>(pc = "done" /\ ret.kind \in {"Ok", "Err"})

\* the cursor ends one past the input
C10_Witness ==
    /\ Tokenized
    /\ ret.kind = "Ok"
    /\ s # <<>>
    /\ i = Len(s) + 1

----------------------------------------------------------------------------
(* Claims about get_sip003_arg *)

AddressingSet == \A k \in AddrKeys : env[k].set /\ env[k].val # <<>>
Options == env["SS_PLUGIN_OPTIONS"]
Called == caller = "get_sip003_arg"
EnvAddr(host, port) == env[host].val \o <<":">> \o env[port].val

\* C1: None, with nothing parsed and no exit, when an addressing variable is unset or
\* empty or when all four are set and SS_PLUGIN_OPTIONS is unset; exit exactly when
\* all four are set and SS_PLUGIN_OPTIONS is set but empty; the options are parsed
\* exactly when all five are set and non-empty.
C1_EnvironmentOutcome ==
    Called =>
        /\ pc = "done" =>
              /\ (~AddressingSet \/ ~Options.set) => (result = ReturnNone /\ ret = NoRet)
              /\ result.kind = "Exit" <=> (AddressingSet /\ Options.set /\ Options.val = <<>>)
              /\ ret # NoRet <=> (AddressingSet /\ Options.set /\ Options.val # <<>>)
        /\ pc \in {"key", "value", "unwrap", "build"} =>
              (AddressingSet /\ Options.set /\ Options.val # <<>> /\ s = Options.val)

C1_Witness ==
    /\ Called
    /\ pc = "done"
    /\ result.kind = "Exit"
    /\ AddressingSet

\* C2: a returned configuration is Server iff the tokenizer's pairs hold key `server`,
\* Client otherwise; Server listens on remote host:port with upstream local host:port,
\* Client listens on local host:port with server remote host:port and alpn unset.
C2_ModeAndAddresses ==
    (Called /\ result.kind = "Some") =>
        LET a == result.args IN
        /\ a.variant = (IF K_server \in PairKeys(ret.pairs) THEN "Server" ELSE "Client")
        /\ a.variant = "Server" =>
              /\ a.listen = EnvAddr("SS_REMOTE_HOST", "SS_REMOTE_PORT")
              /\ a.server_addr = EnvAddr("SS_LOCAL_HOST", "SS_LOCAL_PORT")
        /\ a.variant = "Client" =>
              /\ a.listen = EnvAddr("SS_LOCAL_HOST", "SS_LOCAL_PORT")
              /\ a.server_addr = EnvAddr("SS_REMOTE_HOST", "SS_REMOTE_PORT")
              /\ a.alpn = <<>>

\* a Server configuration selected by `server=0`
C2_Witness ==
    /\ Called
    /\ result.kind = "Some"
    /\ result.args.variant = "Server"
    /\ \E n \in 1..Len(ret.pairs) : ret.pairs[n] = <<K_server, <<"0">> >>

\* C3: a configuration is returned only if the pairs hold `passwd` and the mode's key
\* (`tls` with `server`, `host` without); when the options parse and one of them is
\* missing the call panics, whatever other keys are there; a returned configuration
\* has every field of its variant filled.
C3_RequiredOptions ==
    Called =>
        LET keys == PairKeys(ret.pairs)
            required == {K_passwd, IF K_server \in keys THEN K_tls ELSE K_host}
        IN  /\ result.kind = "Some" =>
                  /\ required \subseteq keys
                  /\ result.args.variant \in {"Server", "Client"}
                  /\ result.args.listen # <<>>
                  /\ result.args.server_addr # <<>>
                  /\ result.args.names =
                        ret.pairs[LastIndexOf(ret.pairs,
                                     IF K_server \in keys THEN K_tls ELSE K_host)][2]
                  /\ result.args.password = ret.pairs[LastIndexOf(ret.pairs, K_passwd)][2]
            /\ (pc = "done" /\ ret.kind = "Ok" /\ ~(required \subseteq keys))
                  => result.kind = "Panic"
            /\ (pc = "done" /\ ret.kind = "Err") => result.kind = "Panic"

\* `server` and `host` without `tls`
C3_Witness ==
    /\ Called
    /\ pc = "done"
    /\ result.kind = "Panic"
    /\ {K_passwd, K_server, K_host} \subseteq PairKeys(ret.pairs)
    /\ K_tls \notin PairKeys(ret.pairs)

\* C4 as stated: the password of a returned configuration is non-empty.
C4_PasswordNonEmpty ==
    (Called /\ result.kind = "Some") => result.args.password # <<>>

\* C8: the map holds exactly the keys of the pair sequence, each once, each with the
\* value of its last occurrence; for the unit test's input secret -> yes,
\* server -> 1, cache -> /tmp/cache.
C8_LastOccurrenceWins ==
    (Called /\ pc \in {"build", "done"} /\ ret.kind = "Ok") =>
        /\ {opts_map[n][1] : n \in 1..Len(opts_map)} = PairKeys(ret.pairs)
        /\ \A n, m \in 1..Len(opts_map) : opts_map[n][1] = opts_map[m][1] => n = m
        /\ \A n \in 1..Len(opts_map) :
              opts_map[n][2] = ret.pairs[LastIndexOf(ret.pairs, opts_map[n][1])][2]
        /\ s = TestInput =>
              {opts_map[n] : n \in 1..Len(opts_map)} =
                 { <<K_server, <<"1">> >>,
                   << <<"s", "e", "c", "r", "e", "t">>, <<"y", "e", "s">> >>,
                   << <<"c", "a", "c", "h", "e">>,
                      <<"/", "t", "m", "p", "/", "c", "a", "c", "h", "e">> >> }

\* a key that occurs twice with different values
C8_Witness ==
    /\ Called
    /\ pc = "build"
    /\ \E n, m \in 1..Len(ret.pairs) :
          n < m /\ ret.pairs[n][1] = ret.pairs[m][1] /\ ret.pairs[n][2] # ret.pairs[m][2]

====
